---- MODULE Spec2Model ----
(***************************************************************************)
(* Model of streamlit.py: a one-page chat front end.  Every interaction    *)
(* re-runs main() from the top with the current widget values; the only    *)
(* state that survives a pass is st.session_state.  A pass is modelled in  *)
(* three steps, in program order: the sidebar block (lines 144-214), the   *)
(* chat block up to the blocking completion call (lines 216-266) and the   *)
(* return of that call (lines 116-136, 267-270).  The script is taken to   *)
(* run sequentially as written: no other pass starts while one is waiting  *)
(* on the completion call.                                                 *)
(***************************************************************************)
EXTENDS Integers, Sequences, FiniteSets, TLC

\* ---------------------------------------------------------------- bounds
\* Longest conversation explored, in user/assistant exchanges (more than
\* the 10 exchanges the request window holds).
MaxTurns == 11

\* Completion calls are let fail during the first MaxFailTurn exchanges of
\* a conversation; later calls succeed.
MaxFailTurn == 2

\* ------------------------------------------------------- static program data
\* PERSONALITIES (the icon glyphs are left out).
PERSONALITIES ==
  [p \in {"Math Teacher", "Doctor", "Travel Guide", "Chef", "Tech Support"} |->
    CASE p = "Math Teacher" ->
           [description |-> "A knowledgeable mathematics teacher who helps with math problems and concepts",
            system_prompt |-> "You are a helpful Math Teacher. You ONLY answer questions related to mathematics, including:\n- Arithmetic, algebra, geometry, calculus, statistics\n- Math problem solving and explanations\n- Mathematical concepts and theories\n- Math homework help\n\nIf asked about anything outside of mathematics, politely decline and redirect the conversation back to math topics. Always be encouraging and educational in your responses."]
      [] p = "Doctor" ->
           [description |-> "A medical professional providing health information and guidance",
            system_prompt |-> "You are a helpful Medical Doctor. You ONLY answer questions related to health and medicine, including:\n- Symptoms and general health information\n- Medical conditions (general information only)\n- Wellness and prevention tips\n- When to seek medical care\n\nIMPORTANT: Always remind users that your advice is for informational purposes only and they should consult with qualified healthcare providers for medical decisions. If asked about anything outside of health and medicine, politely decline and redirect to medical topics."]
      [] p = "Travel Guide" ->
           [description |-> "An experienced travel expert with tips and destination advice",
            system_prompt |-> "You are an expert Travel Guide. You ONLY answer questions related to travel, including:\n- Destination recommendations and information\n- Travel planning and itineraries\n- Transportation options\n- Accommodation advice\n- Local customs and cultures\n- Travel tips and safety\n\nIf asked about anything outside of travel, politely decline and redirect the conversation back to travel-related topics. Be enthusiastic and helpful about travel experiences."]
      [] p = "Chef" ->
           [description |-> "A culinary expert specializing in cooking and recipes",
            system_prompt |-> "You are a professional Chef. You ONLY answer questions related to cooking and food, including:\n- Recipes and cooking instructions\n- Cooking techniques and methods\n- Ingredient substitutions and tips\n- Kitchen equipment advice\n- Food safety and storage\n- Cuisine types and food culture\n\nIf asked about anything outside of cooking and food, politely decline and redirect the conversation back to culinary topics. Be passionate and detailed about food and cooking."]
      [] p = "Tech Support" ->
           [description |-> "A technical support specialist for devices and software troubleshooting",
            system_prompt |-> "You are a Tech Support Specialist. You ONLY answer questions related to technology troubleshooting, including:\n- Computer and device problems\n- Software installation and configuration\n- Network connectivity issues\n- Hardware troubleshooting\n- Operating system help\n- Application support\n\nIf asked about anything outside of technical support, politely decline and redirect the conversation back to tech-related topics. Be clear, step-by-step, and patient in your technical explanations."]]

\* personality_options = list(PERSONALITIES.keys())
personality_options == DOMAIN PERSONALITIES

GROQ_MODELS ==
  << "llama-3.1-70b-versatile", "llama-3.1-8b-instant",
     "llama-3.2-90b-text-preview", "llama-3.2-11b-text-preview",
     "mixtral-8x7b-32768", "gemma2-9b-it" >>

\* The values the model selectbox can return.
ModelOptions == {GROQ_MODELS[i] : i \in 1..Len(GROQ_MODELS)}

\* messages[-20:] keeps this many entries.
HistoryWindow == 20

\* Fixed request parameters of call_groq_api.
MAX_TOKENS == 1024

TIMEOUT == 30

\* The two fallback replies of call_groq_api.
ERROR_REPLY == "Sorry, I encountered an error processing your request."

TIMEOUT_REPLY == "Request timed out. Please try again."

\* Python's None (an unset local, a chat input with nothing submitted).
None == "<None>"

\* ------------------------------------------------------------------ state
VARIABLES
  session_state,         \* st.session_state: messages, groq_api_key,
                         \* selected_personality, selected_model
  api_key,               \* main()'s local api_key (line 155)
  selected_model,        \* main()'s local selected_model (line 171)
  selected_personality,  \* main()'s local selected_personality (line 186)
  prompt,                \* value of st.chat_input in this pass, or None
  request,               \* the POST being waited on, or None
  origin,                \* history: for each entry of messages, the
                         \* personality selected when it was appended
  event,                 \* history: what the sidebar block of this pass did
  pc                     \* "idle": between passes; "main": sidebar done;
                         \* "rerun": st.rerun() was called;
                         \* "calling": inside requests.post

vars == << session_state, api_key, selected_model, selected_personality,
           prompt, request, origin, event, pc >>

\* ------------------------------------------------------ pure helper code
\* init_session_state(): each key is set only if it is not there yet.
init_session_state(ss) ==
  ss @@ [messages |-> << >>,
         groq_api_key |-> "",
         selected_personality |-> "Math Teacher",
         selected_model |-> "llama-3.1-70b-versatile"]

\* A session with no key set: st.session_state of a new session.
NewSession == [k \in {} |-> None]

\* Python s[-n:] for n > 0: the last min(len(s), n) items, in order.
LastItems(s, n) ==
  IF Len(s) <= n THEN s ELSE SubSeq(s, Len(s) - n + 1, Len(s))

\* Variant: the window is taken from the front, messages[:20].
recent_messages_oldest(messages) ==
  IF Len(messages) <= HistoryWindow THEN messages
  ELSE SubSeq(messages, 1, HistoryWindow)

\* recent_messages = st.session_state.messages[-20:]
recent_messages(messages) == LastItems(messages, HistoryWindow)

\* api_messages: the system message followed by the recent messages.
api_messages(personality, messages) ==
  << [role |-> "system", content |-> PERSONALITIES[personality].system_prompt] >>
    \o recent_messages(messages)

\* st.session_state.groq_api_key = api_key
store_api_key(ss, k) == [ss EXCEPT !.groq_api_key = k]

\* Variant: a model change also empties the transcript.
store_model_clearing(ss, m) ==
  IF m # ss.selected_model
    THEN [ss EXCEPT !.selected_model = m, !.messages = << >>]
    ELSE ss

\* st.session_state.selected_model = selected_model
store_model(ss, m) == [ss EXCEPT !.selected_model = m]

\* Variant: the personality is stored but the transcript is kept.
store_personality_keep(ss, p) == [ss EXCEPT !.selected_personality = p]

\* if selected_personality != st.session_state.selected_personality: ...
store_personality(ss, p) ==
  IF p # ss.selected_personality
    THEN [ss EXCEPT !.selected_personality = p, !.messages = << >>]
    ELSE ss

\* Variant: clearing also puts the model selection back to its default.
clear_chat_reset(ss) ==
  [ss EXCEPT !.messages = << >>, !.selected_model = "llama-3.1-70b-versatile"]

\* clear_chat(): st.session_state.messages = [] (st.rerun() ends the pass).
clear_chat(ss) == [ss EXCEPT !.messages = << >>]

\* Variant: the missing-key check is absent.
chat_blocked_never(k) == FALSE

\* if not api_key: ... return
chat_blocked(k) == k = ""

\* Variant: the user message is inserted at the front.
append_user_front(ss, text) ==
  [ss EXCEPT !.messages = << [role |-> "user", content |-> text] >> \o @]

\* st.session_state.messages.append({"role": "user", "content": prompt})
append_user(ss, text) ==
  [ss EXCEPT !.messages = Append(@, [role |-> "user", content |-> text])]

\* Variant: the reply is stored with the user role.
append_assistant_as_user(ss, response) ==
  [ss EXCEPT !.messages = Append(@, [role |-> "user", content |-> response])]

\* st.session_state.messages.append({"role": "assistant", "content": response})
append_assistant(ss, response) ==
  [ss EXCEPT !.messages = Append(@, [role |-> "assistant", content |-> response])]

\* headers, data and the arguments of requests.post in call_groq_api.
\* (temperature 0.7 is kept as text: the model has no reals.)
post_request(messages, k, model) ==
  [url |-> "https://api.groq.com/openai/v1/chat/completions",
   headers |-> [Authorization |-> "Bearer " \o k,
                ContentType |-> "application/json"],
   json |-> [model |-> model, messages |-> messages, temperature |-> "0.7",
             max_tokens |-> MAX_TOKENS, stream |-> FALSE],
   timeout |-> TIMEOUT]

\* ------------------------------------------------------------ environment
\* What requests.post can do: answer with a status and a body, time out,
\* or raise something else.  A body either holds choices[0].message.content
\* or does not (then reading it raises inside the try block).
StatusCodes == {200, 401, 500}

Outcome(kind, status, wellformed, content) ==
  [kind |-> kind, status_code |-> status,
   body |-> [wellformed |-> wellformed, content |-> content]]

Outcomes(req) ==
  LET asked == req.json.messages[Len(req.json.messages)].content
  IN  { Outcome("response", s, w, "re: " \o asked) :
          s \in StatusCodes, w \in BOOLEAN }
      \cup { Outcome("Timeout", 0, FALSE, None),
             Outcome("Exception", 0, FALSE, None) }

\* Variant: a timeout falls into the generic handler.
call_groq_api_generic(outcome) ==
  IF outcome.kind = "response" /\ outcome.status_code = 200
       /\ outcome.body.wellformed
    THEN outcome.body.content
    ELSE ERROR_REPLY

\* The try/except of call_groq_api, given what requests.post did.
call_groq_api(outcome) ==
  IF outcome.kind = "response"
    THEN IF outcome.status_code = 200
           THEN IF outcome.body.wellformed
                  THEN outcome.body.content   \* result["choices"][0]...
                  ELSE ERROR_REPLY            \* except Exception
           ELSE ERROR_REPLY
    ELSE IF outcome.kind = "Timeout"
           THEN TIMEOUT_REPLY
           ELSE ERROR_REPLY

\* The outcomes that end in the reply text of the backend.
Succeeds(outcome) ==
  /\ outcome.kind = "response"
  /\ outcome.status_code = 200
  /\ outcome.body.wellformed

\* The text typed by the user: the ordinal of the question within the
\* conversation, so that all entries of a transcript are distinguishable.
UserPrompt(messages) == "q" \o ToString(Len(messages) \div 2 + 1)

\* Values st.chat_input can return in a pass whose sidebar left `messages`.
ChatInputs(messages) ==
  {None} \cup (IF Len(messages) < 2 * MaxTurns
                 THEN {UserPrompt(messages)} ELSE {})

\* Values of the API key text input.
ApiKeys == {"", "gsk_key"}

\* ---------------------------------------------------------------- actions
\* What the sidebar block of the current pass did (history variable):
\* whether the personality or model widget differed from the stored value,
\* and whether the transcript was non-empty when the pass began.
NoEvent == [switched |-> FALSE, model_changed |-> FALSE, had_history |-> FALSE]

Init ==
  /\ session_state = init_session_state(NewSession)
  /\ api_key = None
  /\ selected_model = None
  /\ selected_personality = None
  /\ prompt = None
  /\ request = None
  /\ origin = << >>
  /\ event = NoEvent
  /\ pc = "idle"

\* Lines 144-214 of main(): the sidebar block of a pass whose widgets hold
\* k, m and p, with the clear button pressed or not.  `typed` tells whether
\* the chat input may carry a prompt in this pass.
Sidebar(k, m, p, clicked, typed) ==
  /\ LET s0 == init_session_state(session_state)
         s1 == store_api_key(s0, k)
         s2 == store_model(s1, m)
         s3 == store_personality(s2, p)
         s4 == IF clicked THEN clear_chat(s3) ELSE s3
     IN  /\ session_state' = s4
         /\ origin' = IF s4.messages = << >> THEN << >> ELSE origin
         /\ \E pr \in (IF typed THEN ChatInputs(s3.messages) ELSE {None}) :
               prompt' = IF clicked THEN None ELSE pr
         /\ event' = [switched |-> p # s0.selected_personality,
                      model_changed |-> m # s0.selected_model,
                      had_history |-> s0.messages # << >>]
  /\ pc' = IF clicked THEN "rerun" ELSE "main"
  /\ api_key' = k
  /\ selected_model' = m
  /\ selected_personality' = p
  /\ UNCHANGED request

\* A pass started by the user: any widget values, button and chat input.
Interact ==
  /\ pc = "idle"
  /\ \E k \in ApiKeys, m \in ModelOptions, p \in personality_options,
        clicked \in BOOLEAN :
       Sidebar(k, m, p, clicked, TRUE)

\* st.rerun() in clear_chat: the script runs again with the same widget
\* values, the button released and nothing in the chat input.
ScriptRerun ==
  /\ pc = "rerun"
  /\ Sidebar(api_key, selected_model, selected_personality, FALSE, FALSE)

\* Lines 216-266 of main(): return when there is no key; otherwise, when a
\* prompt was submitted, store it and issue the completion request.
ChatInterface ==
  /\ pc = "main"
  /\ IF chat_blocked(api_key) \/ prompt = None
       THEN /\ pc' = "idle"
            /\ event' = NoEvent
            /\ UNCHANGED << session_state, origin, request >>
       ELSE LET s1 == append_user(session_state, prompt)
            IN  /\ session_state' = s1
                /\ origin' = Append(origin, selected_personality)
                /\ request' = post_request(
                                 api_messages(selected_personality, s1.messages),
                                 api_key, selected_model)
                /\ pc' = "calling"
                /\ UNCHANGED event
  /\ prompt' = None
  /\ UNCHANGED << api_key, selected_model, selected_personality >>

\* Lines 116-136 and 267-270: the call returns and the reply is stored.
CallReturns(outcome) ==
  /\ pc = "calling"
  /\ outcome \in Outcomes(request)
  /\ Succeeds(outcome) \/ Len(session_state.messages) < 2 * MaxFailTurn
  /\ session_state' = append_assistant(session_state, call_groq_api(outcome))
  /\ origin' = Append(origin, selected_personality)
  /\ request' = None
  /\ event' = NoEvent
  /\ pc' = "idle"
  /\ UNCHANGED << api_key, selected_model, selected_personality, prompt >>

Respond ==
  /\ pc = "calling"
  /\ \E outcome \in Outcomes(request) : CallReturns(outcome)

Next == Interact \/ ScriptRerun \/ ChatInterface \/ Respond

Spec == Init /\ [][Next]_vars

\* ------------------------------------------------------------ properties
\* The stored transcript.
Transcript == session_state.messages

\* The history part of a request: everything after the system message.
HistoryOf(req) == Tail(req.json.messages)

Min(a, b) == IF a <= b THEN a ELSE b

\* C1: whenever a completion request is outstanding, with N the length of
\* the transcript (the new user message included) and P the selected
\* personality, the request's message list has length min(N,20)+1, starts
\* with {system, P.system_prompt}, and continues with exactly the last
\* min(N,20) transcript entries in their order.
C1_RequestAssembly ==
  pc = "calling" =>
    LET N  == Len(Transcript)
        n  == Min(N, 20)
        am == request.json.messages
    IN  /\ Len(am) = n + 1
        /\ am[1] = [role |-> "system",
                    content |-> PERSONALITIES[session_state.selected_personality].system_prompt]
        /\ \A i \in 1..n : am[i + 1] = Transcript[N - n + i]

\* A request is outstanding for a transcript longer than the window.
C1_Witness == pc = "calling" /\ Len(Transcript) > 20

\* C2: a pass whose personality widget differs from the stored personality
\* leaves the transcript empty right after the sidebar block, whatever its
\* length was, and stores the widget's value.
C2_SwitchClears ==
  [][ (pc = "idle" /\ selected_personality' # session_state.selected_personality)
        => /\ session_state'.messages = << >>
           /\ session_state'.selected_personality = selected_personality' ]_vars

\* Right after a switch that found a non-empty transcript.
C2_Witness ==
  /\ pc = "main"
  /\ event.switched /\ event.had_history
  /\ Transcript = << >>

\* C3: pressing the clear button always empties the transcript, and a pass
\* in which only the button was pressed changes nothing else of the
\* session: personality, model and API key stay as they were.
C3_ClearFrame ==
  [][ (pc = "idle" /\ pc' = "rerun")
        => /\ session_state'.messages = << >>
           /\ (/\ api_key' = session_state.groq_api_key
               /\ selected_model' = session_state.selected_model
               /\ selected_personality' = session_state.selected_personality)
                => session_state' = [session_state EXCEPT !.messages = << >>] ]_vars

\* Right after a clear that found a non-empty transcript, with a key, a
\* model and a personality other than the defaults in place.
C3_Witness ==
  /\ pc = "rerun"
  /\ event.had_history /\ ~event.switched /\ ~event.model_changed
  /\ Transcript = << >>
  /\ session_state.groq_api_key # ""
  /\ session_state.selected_model # "llama-3.1-70b-versatile"
  /\ session_state.selected_personality # "Math Teacher"

\* C4: a completion call that fails makes the turn append exactly one
\* assistant message, holding "Request timed out. Please try again." after
\* a timeout and "Sorry, I encountered an error processing your request."
\* after a non-200 status or any other exception.
C4_FailureFallback ==
  [][ \A o \in (IF pc = "calling" THEN Outcomes(request) ELSE {}) :
        (CallReturns(o) /\ ~Succeeds(o))
          => session_state'.messages =
               Append(Transcript,
                      [role |-> "assistant",
                       content |-> IF o.kind = "Timeout"
                                     THEN "Request timed out. Please try again."
                                     ELSE "Sorry, I encountered an error processing your request."]) ]_vars

\* A finished conversation that holds, after an earlier successful
\* exchange, a timed-out turn.
C4_Witness ==
  /\ pc = "idle"
  /\ Len(Transcript) >= 4
  /\ Transcript[Len(Transcript)] =
       [role |-> "assistant", content |-> "Request timed out. Please try again."]
  /\ Transcript[Len(Transcript) - 1].role = "user"

\* C5: in a turn answered with HTTP 200 and a reply text, the user message
\* is appended when the request is issued (and is the request's last entry)
\* and the assistant message with the reply text is appended when the call
\* returns: two entries, in that order, nothing else touched.
C5_SuccessfulTurn ==
  [][ /\ (pc = "main" /\ pc' = "calling")
         => /\ session_state'.messages =
                 Append(Transcript, [role |-> "user", content |-> prompt])
            /\ request'.json.messages[Len(request'.json.messages)] =
                 [role |-> "user", content |-> prompt]
      /\ \A o \in (IF pc = "calling" THEN Outcomes(request) ELSE {}) :
           (CallReturns(o) /\ Succeeds(o))
             => /\ Transcript[Len(Transcript)].role = "user"
                /\ session_state'.messages =
                     Append(Transcript,
                            [role |-> "assistant", content |-> o.body.content]) ]_vars

\* A conversation whose third turn has just been answered successfully.
C5_Witness ==
  /\ pc = "idle"
  /\ Len(Transcript) = 6
  /\ Transcript[5] = [role |-> "user", content |-> "q3"]
  /\ Transcript[6] = [role |-> "assistant", content |-> "re: q3"]

\* C6: the transcript holds user and assistant entries only, alternating
\* from a user entry; outside of a pending call every user entry is
\* followed by an assistant entry.
C6_WellFormed ==
  /\ \A i \in 1..Len(Transcript) :
       Transcript[i].role = IF i % 2 = 1 THEN "user" ELSE "assistant"
  /\ pc # "calling" => Len(Transcript) % 2 = 0
  /\ pc = "calling" => Len(Transcript) % 2 = 1

\* A finished conversation under a non-default personality, with a failed
\* turn followed by a successful one.
C6_Witness ==
  /\ pc = "idle"
  /\ session_state.selected_personality = "Chef"
  /\ Len(Transcript) >= 4
  /\ \E i \in 1..Len(Transcript) - 1 :
       /\ Transcript[i].content = ERROR_REPLY
       /\ Transcript[Len(Transcript)].content \notin {ERROR_REPLY, TIMEOUT_REPLY}

\* C7: no step that ends with an empty API key issues a completion request
\* or appends to the transcript, and no request is ever outstanding with an
\* empty key.
C7_NoKeyNoChat ==
  /\ [](pc = "calling" =>
          /\ session_state.groq_api_key # ""
          /\ request.headers.Authorization # "Bearer ")
  /\ [][ session_state'.groq_api_key = ""
           => /\ pc' # "calling"
              /\ Len(session_state'.messages) <= Len(Transcript) ]_vars

\* A prompt was submitted in a pass whose key field is empty.
C7_Witness ==
  /\ pc = "main"
  /\ session_state.groq_api_key = ""
  /\ prompt # None

\* C8: a pass in which only the model widget differs from the session
\* changes selected_model and nothing else, and every request carries the
\* stored model together with the window of the stored transcript.
C8_ModelFrame ==
  /\ [](pc = "calling" =>
          /\ request.json.model = session_state.selected_model
          /\ HistoryOf(request) = LastItems(Transcript, 20))
  /\ [][ (/\ pc = "idle" /\ pc' = "main"
          /\ selected_model' # session_state.selected_model
          /\ selected_personality' = session_state.selected_personality
          /\ api_key' = session_state.groq_api_key)
           => session_state' =
                [session_state EXCEPT !.selected_model = selected_model'] ]_vars

\* A request issued in the pass that changed the model, over a history built
\* before the change.
C8_Witness ==
  /\ pc = "calling"
  /\ event.model_changed /\ event.had_history /\ ~event.switched
  /\ request.json.model = "gemma2-9b-it"
  /\ Len(HistoryOf(request)) >= 3

\* C9: every transcript entry was appended while the currently selected
\* personality was selected, and a request pairs the system prompt of that
\* personality with entries made under it only.
C9_Isolation ==
  /\ Len(origin) = Len(Transcript)
  /\ \A i \in 1..Len(origin) : origin[i] = session_state.selected_personality
  /\ pc = "calling" =>
       \A q \in personality_options :
         request.json.messages[1].content = PERSONALITIES[q].system_prompt
           => /\ q = session_state.selected_personality
              /\ \A i \in 1..Len(origin) : origin[i] = q

\* A request issued in the very pass that switched the personality away
\* from a non-empty conversation.
C9_Witness ==
  /\ pc = "calling"
  /\ event.switched /\ event.had_history
  /\ Len(Transcript) = 1

\* C10: when a request is issued for a transcript of more than 20 entries,
\* its history is 10 complete exchanges, each a user entry followed by its
\* assistant reply.
C10_WindowOfExchanges ==
  (pc = "calling" /\ Len(Transcript) > 20) =>
    /\ Len(HistoryOf(request)) = 20
    /\ \A j \in 1..10 :
         /\ HistoryOf(request)[2 * j - 1].role = "user"
         /\ HistoryOf(request)[2 * j].role = "assistant"
         /\ HistoryOf(request)[2 * j].content
              = "re: " \o HistoryOf(request)[2 * j - 1].content

====
